---------------------------- MODULE Spec2Model ----------------------------
(***************************************************************************)
(* Model of the AuthProvider middleware of msal-express-wrapper           *)
(* (src/unnamed/part_000): the redirect state machine (signIn, signOut,   *)
(* handleRedirect, getToken), the guards (isAuthenticated, hasAccess with *)
(* overage resolution), the access rule evaluator and the state codec.    *)
(*                                                                         *)
(* Strings are sequences of Unicode code points; a JavaScript `undefined` *)
(* string is the one-element sequence Undefined.                          *)
(***************************************************************************)
EXTENDS Integers, Sequences, FiniteSets, TLC

VARIABLES
    session,    \* req.session: the server-side session of the browser, or NoSession
    sid,        \* identifier of the session the browser's cookie names
    guids,      \* number of GUIDs CryptoProvider.createNewGuid has produced
    signOutPc,  \* position of a signOut request: "idle" or "destroying"
    loggedOut,  \* session identifiers for which the logout redirect was sent
    last,       \* the request being answered: its inputs, the session before it, its response
    codec,      \* a state blob on its way through encode and decode
    hist        \* history of the redirect flows of the session (kept where it is read)

vars == <<session, sid, guids, signOutPc, loggedOut, last, codec, hist>>

-----------------------------------------------------------------------------
(* Bounds of the model *)

\* distinct GUIDs one run may draw
MaxGuids == 2
\* sessions the session store may create in one run
MaxSessions == 2
\* longest path of a state blob in the codec specification
MaxPathLen == 2
\* directory pages that follow the first one
MaxPages == 2

-----------------------------------------------------------------------------
(* JavaScript values *)

Undefined == <<-1>>

\* code points of the characters the model's strings are made of
Ascii ==
    [c \in {"{", "}", "\"", ":", ",", "\\", "/", "_", "-", "n", "u",
            "a", "c", "e", "g", "h", "i", "k", "o", "p", "q", "r", "s", "t", "x"} |->
        CASE c = "{" -> 123 [] c = "}" -> 125 [] c = "\"" -> 34 [] c = ":" -> 58
          [] c = "," -> 44 [] c = "\\" -> 92 [] c = "/" -> 47 [] c = "_" -> 95
          [] c = "-" -> 45 [] c = "n" -> 110 [] c = "u" -> 117
          [] c = "a" -> 97 [] c = "c" -> 99 [] c = "e" -> 101 [] c = "g" -> 103
          [] c = "h" -> 104 [] c = "i" -> 105 [] c = "k" -> 107 [] c = "o" -> 111
          [] c = "p" -> 112 [] c = "q" -> 113 [] c = "r" -> 114 [] c = "s" -> 115
          [] c = "t" -> 116 [] c = "x" -> 120]

\* the string whose characters are the one-character strings of t
Str(t) == [i \in 1..Len(t) |-> Ascii[t[i]]]

RECURSIVE Flatten(_)
Flatten(ss) == IF ss = <<>> THEN <<>> ELSE Head(ss) \o Flatten(Tail(ss))

-----------------------------------------------------------------------------
(* The state codec: JSON.stringify / base64Encode, base64Decode / JSON.parse *)

\* a stringify that escapes nothing
QuoteCharRaw(c) == <<c>>

\* JSON.stringify of one character inside a string literal
QuoteChar(c) ==
    IF c = 34 THEN <<92, 34>>
    ELSE IF c = 92 THEN <<92, 92>>
    ELSE IF c = 10 THEN <<92, 110>>
    ELSE <<c>>

\* JSON.stringify of a string
JSONstringifyString(s) == <<34>> \o Flatten([i \in 1..Len(s) |-> QuoteChar(s[i])]) \o <<34>>

\* one "key":"value" member; a member whose value is undefined is left out
Member(key, val) ==
    IF val = Undefined THEN <<>>
    ELSE <<JSONstringifyString(key) \o <<58>> \o JSONstringifyString(val)>>

RECURSIVE JoinMembers(_)
JoinMembers(ms) ==
    IF ms = <<>> THEN <<>>
    ELSE IF Len(ms) = 1 THEN ms[1]
    ELSE ms[1] \o <<44>> \o JoinMembers(Tail(ms))

\* JSON.stringify({stage: ..., path: ..., nonce: ...})
JSONstringify(obj) ==
    <<123>> \o
    JoinMembers(Member(Str(<<"s","t","a","g","e">>), obj.stage)
                \o Member(Str(<<"p","a","t","h">>), obj.path)
                \o Member(Str(<<"n","o","n","c","e">>), obj.nonce))
    \o <<125>>

\* UTF-8 bytes of a string (code points below 2048)
Utf8Encode(s) ==
    Flatten([i \in 1..Len(s) |->
        IF s[i] < 128 THEN <<s[i]>>
        ELSE <<192 + (s[i] \div 64), 128 + (s[i] % 64)>>])

\* UTF-8 decoding; a byte that starts no valid sequence becomes U+FFFD
RECURSIVE Utf8Decode(_)
Utf8Decode(b) ==
    IF b = <<>> THEN <<>>
    ELSE IF b[1] < 128 THEN <<b[1]>> \o Utf8Decode(Tail(b))
    ELSE IF b[1] >= 194 /\ b[1] < 224 /\ Len(b) >= 2 /\ b[2] >= 128 /\ b[2] < 192
         THEN <<(b[1] - 192) * 64 + (b[2] - 128)>> \o Utf8Decode(Tail(Tail(b)))
    ELSE <<65533>> \o Utf8Decode(Tail(b))

\* the base64 digit that pads the last group
Pad == 64

\* base64 digits (0..63, Pad) of a byte sequence
RECURSIVE Base64Digits(_)
Base64Digits(b) ==
    IF b = <<>> THEN <<>>
    ELSE IF Len(b) = 1
         THEN <<b[1] \div 4, (b[1] % 4) * 16, Pad, Pad>>
    ELSE IF Len(b) = 2
         THEN <<b[1] \div 4, (b[1] % 4) * 16 + (b[2] \div 16), (b[2] % 16) * 4, Pad>>
    ELSE <<b[1] \div 4, (b[1] % 4) * 16 + (b[2] \div 16),
           (b[2] % 16) * 4 + (b[3] \div 64), b[3] % 64>>
         \o Base64Digits(SubSeq(b, 4, Len(b)))

\* the bytes of a sequence of base64 digits; decoding stops at the padding
RECURSIVE Base64Bytes(_)
Base64Bytes(d) ==
    IF Len(d) < 2 \/ d[1] = Pad \/ d[2] = Pad THEN <<>>
    ELSE IF Len(d) = 2 \/ d[3] = Pad
         THEN <<d[1] * 4 + (d[2] \div 16)>>
    ELSE IF Len(d) = 3 \/ d[4] = Pad
         THEN <<d[1] * 4 + (d[2] \div 16), (d[2] % 16) * 16 + (d[3] \div 4)>>
    ELSE <<d[1] * 4 + (d[2] \div 16), (d[2] % 16) * 16 + (d[3] \div 4),
           (d[3] % 4) * 64 + d[4]>>
         \o Base64Bytes(SubSeq(d, 5, Len(d)))

\* CryptoProvider.base64Encode: Buffer.from(s, "utf8").toString("base64")
base64Encode(s) == Base64Digits(Utf8Encode(s))

\* CryptoProvider.base64Decode: Buffer.from(s, "base64").toString("utf8")
base64Decode(s) == Utf8Decode(Base64Bytes(s))

\* the result of a failed parse
ParseFailure == [ok |-> FALSE, val |-> <<>>, next |-> 0]

\* a JSON string literal of s starting at position i: its value and the position after it
RECURSIVE ParseChars(_, _, _)
ParseChars(s, i, acc) ==
    IF i > Len(s) THEN ParseFailure
    ELSE IF s[i] = 34 THEN [ok |-> TRUE, val |-> acc, next |-> i + 1]
    ELSE IF s[i] = 92
         THEN IF i + 1 > Len(s) THEN ParseFailure
              ELSE IF s[i + 1] \in {34, 92, 47}
                   THEN ParseChars(s, i + 2, Append(acc, s[i + 1]))
              ELSE IF s[i + 1] = 110 THEN ParseChars(s, i + 2, Append(acc, 10))
              ELSE ParseFailure
    ELSE IF s[i] < 32 THEN ParseFailure
    ELSE ParseChars(s, i + 1, Append(acc, s[i]))

ParseString(s, i) ==
    IF i > Len(s) \/ s[i] # 34 THEN ParseFailure ELSE ParseChars(s, i + 1, <<>>)

\* the object JSON.parse makes of no members
EmptyObject == [ok |-> TRUE, stage |-> Undefined, path |-> Undefined, nonce |-> Undefined]

\* a text JSON.parse rejects (it throws SyntaxError)
SyntaxError == [ok |-> FALSE, stage |-> Undefined, path |-> Undefined, nonce |-> Undefined]

\* obj with one more member; a later member of the same key replaces the earlier
SetMember(obj, key, val) ==
    IF key = Str(<<"s","t","a","g","e">>) THEN [obj EXCEPT !.stage = val]
    ELSE IF key = Str(<<"p","a","t","h">>) THEN [obj EXCEPT !.path = val]
    ELSE IF key = Str(<<"n","o","n","c","e">>) THEN [obj EXCEPT !.nonce = val]
    ELSE obj

\* the members of an object from position i on, up to the closing brace
RECURSIVE ParseMembers(_, _, _)
ParseMembers(s, i, obj) ==
    LET k == ParseString(s, i)
        v == ParseString(s, k.next + 1)
    IN  IF ~k.ok \/ k.next > Len(s) \/ s[k.next] # 58 \/ ~v.ok \/ v.next > Len(s)
        THEN SyntaxError
        ELSE IF s[v.next] = 125
             THEN IF v.next = Len(s) THEN SetMember(obj, k.val, v.val) ELSE SyntaxError
        ELSE IF s[v.next] = 44
             THEN ParseMembers(s, v.next + 1, SetMember(obj, k.val, v.val))
        ELSE SyntaxError

\* JSON.parse of the text of an object whose members are strings
JSONparse(s) ==
    IF Len(s) < 2 \/ s[1] # 123 THEN SyntaxError
    ELSE IF s[2] = 125 THEN (IF Len(s) = 2 THEN EmptyObject ELSE SyntaxError)
    ELSE ParseMembers(s, 2, EmptyObject)

\* the state parameter signIn and getToken put on the authorization request
encode(obj) == base64Encode(JSONstringify(obj))

\* the state handleRedirect reads from the state parameter of the callback
decode(param) == JSONparse(base64Decode(param))

-----------------------------------------------------------------------------
(* Configuration: appSettings and the constants of ./Constants *)

\* AppStages
SIGN_IN == Str(<<"s","i","g","n","_","i","n">>)
ACQUIRE_TOKEN == Str(<<"a","c","q","u","i","r","e","_","t","o","k","e","n">>)

\* appSettings.authRoutes.unauthorized and appSettings.authRoutes.error
UnauthorizedRoute == Str(<<"/","u","n","a","u","t","h">>)
ErrorRoute == Str(<<"/","e","r","r","o","r">>)

\* msalConfig.auth.authority, the prefix of the authorization and logout URLs
Authority == Str(<<"h","t","t","p","s",":","/","/","a","/">>)

\* OIDC_DEFAULT_SCOPES and the scopes of appSettings.remoteResources
OIDC_DEFAULT_SCOPES == <<"openid", "profile", "offline_access">>
ResourceNames == <<"graphAPI", "armAPI">>
ScopesOf(name) == IF name = "graphAPI" THEN <<"user.read">> ELSE <<"user_impersonation">>

\* the paths requests are made for: successRedirect of signIn, the routes of getToken
Paths == {Str(<<"/","p">>), Str(<<"/","t">>)}

\* the route getToken guards for a resource (/profile, /tenant)
RouteOf(name) == IF name = "graphAPI" THEN Str(<<"/","p">>) ELSE Str(<<"/","t">>)

\* authorization codes a callback may carry; Undefined is a callback without code
Codes == {Str(<<"c">>), Undefined}

\* JavaScript null
Null == <<-2>>

\* the access token the identity provider issues for a list of scopes
AccessTokenFor(scopes) ==
    IF scopes = ScopesOf("graphAPI") THEN Str(<<"t","g">>)
    ELSE IF scopes = ScopesOf("armAPI") THEN Str(<<"t","a">>)
    ELSE Str(<<"t","o">>)

\* the n-th GUID of CryptoProvider.createNewGuid
Guid(n) == <<103, 48 + n>>

-----------------------------------------------------------------------------
(* State parameters *)

\* every nonce a state blob may carry: the GUIDs of the run and none
Nonces == {Guid(n) : n \in 1..MaxGuids} \cup {Undefined}

\* a stage that is neither SIGN_IN nor ACQUIRE_TOKEN
OtherStage == Str(<<"x">>)

\* the states a state parameter may encode: honest ones and forged ones alike
BlobRecords == [stage : {SIGN_IN, ACQUIRE_TOKEN, OtherStage}, path : Paths, nonce : Nonces]

\* encode, evaluated once for every state of the model
Encoded == [r \in BlobRecords |-> encode(r)]

StateBlobs == {Encoded[r] : r \in BlobRecords}

\* a state parameter that is no encoded JSON
MalformedState == base64Encode(Str(<<"{","x">>))

\* the state parameter of a callback: absent, empty, malformed or a state blob
StateParams == {Undefined, <<>>, MalformedState} \cup StateBlobs

\* decode, evaluated once for every state parameter of the model
Decoded == [p \in StateParams |-> decode(p)]

-----------------------------------------------------------------------------
(* The session *)

NoSession == [exists |-> FALSE]

\* idTokenClaims: groups and roles are absent or a set of ids
NoClaim == [def |-> FALSE, val |-> {}]
Claim(ids) == [def |-> TRUE, val |-> ids]
EmptyClaims ==
    [groups |-> NoClaim, roles |-> NoClaim, _claim_names |-> FALSE, _claim_sources |-> FALSE]

NoAccount == [def |-> FALSE, homeAccountId |-> <<>>, idTokenClaims |-> EmptyClaims]
\* the account skeleton signIn writes
EmptyAccount == [def |-> TRUE, homeAccountId |-> <<>>, idTokenClaims |-> EmptyClaims]

\* the accounts a code exchange may return
Accounts ==
    {[def |-> TRUE, homeAccountId |-> Str(<<"a">>),
      idTokenClaims |-> [EmptyClaims EXCEPT !.groups = Claim({"g1"})]],
     [def |-> TRUE, homeAccountId |-> Str(<<"e">>),
      idTokenClaims |-> [EmptyClaims EXCEPT !._claim_names = TRUE]]}

NoAuthCodeRequest == [def |-> FALSE, scopes |-> <<>>, state |-> <<>>]
NoTokenRequest == [def |-> FALSE, scopes |-> <<>>, code |-> <<>>]
NoRemoteResources == [def |-> FALSE, map |-> <<>>]

\* the session the session store creates for a request that has none
FreshSession ==
    [isAuthenticated |-> "undefined",
     nonce |-> Undefined,
     account |-> NoAccount,
     authCodeRequest |-> NoAuthCodeRequest,
     tokenRequest |-> NoTokenRequest,
     remoteResources |-> NoRemoteResources]

-----------------------------------------------------------------------------
(* Responses *)

NoResponse == [kind |-> "none", to |-> <<>>, log |-> "none"]
Redirect(target, condition) == [kind |-> "redirect", to |-> target, log |-> condition]
NextOk == [kind |-> "next", to |-> <<>>, log |-> "none"]
NextError(condition) == [kind |-> "nextError", to |-> <<>>, log |-> condition]
\* an exception leaves the handler: the promise it returned is rejected
Throw(condition) == [kind |-> "throw", to |-> <<>>, log |-> condition]

NoExchange == [called |-> FALSE, request |-> NoTokenRequest]
NoAuthCode == [called |-> FALSE, state |-> <<>>, scopes |-> <<>>]
\* the directory lookup of overage resolution: whether acquireTokenSilent,
\* callApiEndpoint and handlePagination were called, and the credentials the access
\* rule was evaluated against
NoLookup == [silent |-> FALSE, fetch |-> FALSE, pagination |-> FALSE,
             evaluated |-> [def |-> FALSE, val |-> {}]]

\* what a handler did: the session it leaves, its response, the code exchange
\* (acquireTokenByCode) it made and the parameters it gave to getAuthCode
Outcome(sess, res, exch, authCode) ==
    [session |-> sess, res |-> res, exchange |-> exch, authCode |-> authCode,
     lookup |-> NoLookup]

\* what a guard did
GuardOutcome(sess, res, lookup) ==
    [session |-> sess, res |-> res, exchange |-> NoExchange, authCode |-> NoAuthCode,
     lookup |-> lookup]

-----------------------------------------------------------------------------
(* Utilities *)

\* a lookup that takes the first configured resource whatever the scopes
getResourceNameFirst(scopes) == ResourceNames[1]

\* getResourceNameFromScopes: the name of the first configured resource with these
\* scopes; "undefined" when findIndex returns -1
getResourceNameFromScopes(scopes) ==
    LET hits == {i \in 1..Len(ResourceNames) : ScopesOf(ResourceNames[i]) = scopes}
    IN  IF hits = {} THEN "undefined"
        ELSE ResourceNames[CHOOSE i \in hits : \A j \in hits : i <= j]

\* the URL getAuthCodeUrl returns: it carries the state of the request
AuthCodeUrl(request) == Authority \o request.state

\* getAuthCode: writes params into authCodeRequest and tokenRequest, asks for the
\* authorization URL (urlOk: getAuthCodeUrl succeeds) and redirects to it
getAuthCode(sess, params, urlOk) ==
    LET called == [called |-> TRUE, state |-> params.state, scopes |-> params.scopes]
        s1 == [sess EXCEPT !.authCodeRequest =
                  [def |-> TRUE, scopes |-> params.scopes, state |-> params.state]]
        s2 == [s1 EXCEPT !.tokenRequest.scopes = params.scopes]
    IN  IF ~sess.authCodeRequest.def
        THEN Outcome(sess, Throw("TypeError"), NoExchange, called)
        ELSE IF ~sess.tokenRequest.def
        THEN Outcome(s1, Throw("TypeError"), NoExchange, called)
        ELSE IF urlOk
        THEN Outcome(s2, Redirect(AuthCodeUrl(s2.authCodeRequest), "none"), NoExchange, called)
        ELSE Outcome(s2, NextError("AUTH_CODE_NOT_OBTAINED"), NoExchange, called)

-----------------------------------------------------------------------------
(* Route handlers *)

\* a signIn that draws a nonce only for a session that has none
NewNonceOnce(sess, guid) == IF sess.nonce # Undefined THEN sess.nonce ELSE guid

\* the nonce signIn gives the session: the GUID createNewGuid has just made
NewNonce(sess, guid) == guid

\* a signIn that marks the session as authenticated
signInAuthenticates(sess, successRedirect, guid, urlOk) ==
    LET s1 == [sess EXCEPT
                 !.authCodeRequest = IF @.def THEN @ ELSE [NoAuthCodeRequest EXCEPT !.def = TRUE],
                 !.tokenRequest = IF @.def THEN @ ELSE [NoTokenRequest EXCEPT !.def = TRUE],
                 !.account = IF @.def THEN @ ELSE EmptyAccount]
        s2 == [s1 EXCEPT !.nonce = NewNonce(s1, guid), !.isAuthenticated = "true"]
        state == Encoded[[stage |-> SIGN_IN, path |-> successRedirect, nonce |-> s2.nonce]]
    IN  getAuthCode(s2, [scopes |-> OIDC_DEFAULT_SCOPES, state |-> state], urlOk)

\* signIn: the skeletons, a new nonce, the SIGN_IN state, getAuthCode
signIn(sess, successRedirect, guid, urlOk) ==
    LET s1 == [sess EXCEPT
                 !.authCodeRequest = IF @.def THEN @ ELSE [NoAuthCodeRequest EXCEPT !.def = TRUE],
                 !.tokenRequest = IF @.def THEN @ ELSE [NoTokenRequest EXCEPT !.def = TRUE],
                 !.account = IF @.def THEN @ ELSE EmptyAccount]
        s2 == [s1 EXCEPT !.nonce = NewNonce(s1, guid)]
        state == Encoded[[stage |-> SIGN_IN, path |-> successRedirect, nonce |-> s2.nonce]]
    IN  getAuthCode(s2, [scopes |-> OIDC_DEFAULT_SCOPES, state |-> state], urlOk)

\* a nonce check that lets every state through
NonceMatchesAlways(state, sess) == TRUE

\* the nonce check of handleRedirect
NonceMatches(state, sess) == state.nonce = sess.nonce

\* a success redirect that ignores the path of the state
SuccessTargetFixed(state) == Str(<<"/","p">>)

\* the target of the redirect that ends a successful SIGN_IN or ACQUIRE_TOKEN stage
SuccessTarget(state) == state.path

\* a session that is signed in whatever the validator said
AfterValidationUnchecked(sess, account, idToken) ==
    [sess EXCEPT !.account = account, !.isAuthenticated = "true"]

\* the session after an identity token was validated with result idToken
AfterValidation(sess, account, idToken) ==
    IF idToken = "valid"
    THEN [sess EXCEPT !.account = account, !.isAuthenticated = "true"]
    ELSE sess

\* a catch block that answers a failure with the redirect of a denial
OnExchangeFailureRedirects(condition) == Redirect(UnauthorizedRoute, condition)

\* the catch blocks of the stages of handleRedirect: log the condition, next(error)
OnExchangeFailure(condition) == NextError(condition)

\* handleRedirect, stage SIGN_IN. env.exchange: acquireTokenByCode succeeds ("ok") or
\* throws; env.account: the account of its response; env.idToken: validateIdToken
\* returns true ("valid"), returns false ("invalid") or throws ("throws")
SignInStage(sess, state, query, env) ==
    LET s1 == [sess EXCEPT !.tokenRequest.code = query.code]
        exch == [called |-> TRUE, request |-> s1.tokenRequest]
    IN  IF ~sess.tokenRequest.def
        THEN Outcome(sess, Throw("TypeError"), NoExchange, NoAuthCode)
        ELSE IF env.exchange # "ok"
        THEN Outcome(s1, OnExchangeFailure("TOKEN_ACQUISITION_FAILED"), exch, NoAuthCode)
        ELSE IF env.idToken = "throws"
        THEN Outcome(s1, OnExchangeFailure("CANNOT_VALIDATE_TOKEN"), exch, NoAuthCode)
        ELSE IF env.idToken = "valid"
        THEN Outcome(AfterValidation(s1, env.account, env.idToken),
                     Redirect(SuccessTarget(state), "none"), exch, NoAuthCode)
        ELSE Outcome(AfterValidation(s1, env.account, env.idToken),
                     Redirect(UnauthorizedRoute, "INVALID_TOKEN"), exch, NoAuthCode)

\* handleRedirect, stage ACQUIRE_TOKEN. Storing the token throws TypeError inside the
\* try block when the session has no entry for the resource of the pending scopes
AcquireTokenStage(sess, state, query, env) ==
    LET resourceName == getResourceNameFromScopes(sess.tokenRequest.scopes)
        s1 == [sess EXCEPT !.tokenRequest.code = query.code]
        exch == [called |-> TRUE, request |-> s1.tokenRequest]
    IN  IF ~sess.tokenRequest.def
        THEN Outcome(sess, Throw("TypeError"), NoExchange, NoAuthCode)
        ELSE IF env.exchange # "ok"
        THEN Outcome(s1, OnExchangeFailure("TOKEN_ACQUISITION_FAILED"), exch, NoAuthCode)
        ELSE IF ~s1.remoteResources.def \/ resourceName \notin DOMAIN s1.remoteResources.map
        THEN Outcome(s1, OnExchangeFailure("TOKEN_ACQUISITION_FAILED"), exch, NoAuthCode)
        ELSE Outcome([s1 EXCEPT !.remoteResources.map[resourceName] =
                                    AccessTokenFor(s1.tokenRequest.scopes)],
                     Redirect(SuccessTarget(state), "none"), exch, NoAuthCode)

\* a switch without the case of ACQUIRE_TOKEN
StageDispatchSignInOnly(sess, state, query, env) ==
    IF state.stage = SIGN_IN THEN SignInStage(sess, state, query, env)
    ELSE Outcome(sess, Redirect(ErrorRoute, "CANNOT_DETERMINE_APP_STAGE"), NoExchange, NoAuthCode)

\* the stages of handleRedirect, entered when the nonce matches
StageDispatch(sess, state, query, env) ==
    IF state.stage = SIGN_IN THEN SignInStage(sess, state, query, env)
    ELSE IF state.stage = ACQUIRE_TOKEN THEN AcquireTokenStage(sess, state, query, env)
    ELSE Outcome(sess, Redirect(ErrorRoute, "CANNOT_DETERMINE_APP_STAGE"), NoExchange, NoAuthCode)

\* a handler that does not look whether the state parameter is there
HasStateUnchecked(query) == TRUE

\* req.query.state is truthy: present and not the empty string
HasState(query) == query.state # Undefined /\ query.state # <<>>

\* handleRedirect
handleRedirect(sess, query, env) ==
    IF HasState(query)
    THEN LET state == Decoded[query.state]
         IN  IF ~state.ok
             THEN Outcome(sess, Throw("SyntaxError"), NoExchange, NoAuthCode)
             ELSE IF NonceMatches(state, sess)
             THEN StageDispatch(sess, state, query, env)
             ELSE Outcome(sess, Redirect(UnauthorizedRoute, "NONCE_MISMATCH"),
                          NoExchange, NoAuthCode)
    ELSE Outcome(sess, Redirect(UnauthorizedRoute, "STATE_NOT_FOUND"), NoExchange, NoAuthCode)

-----------------------------------------------------------------------------
(* Middleware *)

\* a getToken without the check for an empty access token
IsEmptyTokenNever(token) == FALSE

\* StringUtils.isEmpty of the access token of a silent acquisition
IsEmptyToken(token) == token = <<>> \/ token = Undefined \/ token = Null

\* the catch block of getToken takes the interactive path for InteractionRequiredAuthError
IsInteractionRequired(silent) ==
    \/ silent.kind = "throws" /\ silent.error = "InteractionRequiredAuthError"
    \/ silent.kind = "returns" /\ IsEmptyToken(silent.accessToken)

\* a reset that writes the entry of the resource into the map the session has
ResetResourcesMerges(sess, resourceName) ==
    IF sess.remoteResources.def
    THEN [def |-> TRUE,
          map |-> [n \in DOMAIN sess.remoteResources.map \cup {resourceName} |->
                      IF n = resourceName THEN Null ELSE sess.remoteResources.map[n]]]
    ELSE [def |-> TRUE, map |-> [n \in {resourceName} |-> Null]]

\* a reset that keeps the entry a resource already has
ResetResourcesKeepsEntry(sess, resourceName) ==
    IF sess.remoteResources.def /\ resourceName \in DOMAIN sess.remoteResources.map
    THEN sess.remoteResources
    ELSE [def |-> TRUE, map |-> [n \in {resourceName} |-> Null]]

\* getToken's first write: remoteResources becomes the one entry of the resource,
\* with accessToken null
ResetResources(sess, resourceName) ==
    [def |-> TRUE, map |-> [n \in {resourceName} |-> Null]]

\* getToken for a configured resource at request URL originalUrl. silent: what
\* acquireTokenSilent does, [kind: "returns", accessToken] or [kind: "throws", error]
getToken(sess, resource, originalUrl, silent, urlOk) ==
    LET scopes == ScopesOf(resource)
        resourceName == getResourceNameFromScopes(scopes)
        s1 == [sess EXCEPT !.remoteResources = ResetResources(sess, resourceName)]
        state == Encoded[[stage |-> ACQUIRE_TOKEN, path |-> originalUrl, nonce |-> s1.nonce]]
    IN  IF IsInteractionRequired(silent)
        THEN getAuthCode(s1, [scopes |-> scopes, state |-> state], urlOk)
        ELSE IF silent.kind = "throws"
        THEN Outcome(s1, NextError(silent.error), NoExchange, NoAuthCode)
        ELSE Outcome([s1 EXCEPT !.remoteResources.map[resourceName] = silent.accessToken],
                     NextOk, NoExchange, NoAuthCode)

-----------------------------------------------------------------------------
(* Guards *)

\* a guard that stops only a flag that is false, not one that was never set
isAuthenticatedLenient(sess) ==
    IF sess # NoSession
    THEN IF sess.isAuthenticated = "false"
         THEN <<Redirect(UnauthorizedRoute, "NOT_PERMITTED")>>
         ELSE <<NextOk>>
    ELSE <<Redirect(UnauthorizedRoute, "SESSION_NOT_FOUND")>>

\* the calls the isAuthenticated handler makes on res and next, in order: the
\* redirect of an unauthenticated session returns before next() is reached
isAuthenticatedCalls(sess) ==
    IF sess # NoSession
    THEN IF sess.isAuthenticated # "true"
         THEN <<Redirect(UnauthorizedRoute, "NOT_PERMITTED")>>
         ELSE <<NextOk>>
    ELSE <<Redirect(UnauthorizedRoute, "SESSION_NOT_FOUND")>>

\* isAuthenticated: what the request gets
isAuthenticated(sess) == isAuthenticatedCalls(sess)[1]

\* String.prototype.split: the pieces of s between the separators
RECURSIVE Split(_, _, _)
Split(s, sep, piece) ==
    IF s = <<>> THEN <<piece>>
    ELSE IF Head(s) = sep THEN <<piece>> \o Split(Tail(s), sep, <<>>)
    ELSE Split(Tail(s), sep, Append(piece, Head(s)))

\* array[i] of JavaScript (i counted from 0): undefined past the end
ElementAt(array, i) == IF i + 1 <= Len(array) THEN array[i + 1] ELSE Undefined

\* the Authorization header of a request: absent, empty, or "b t" (scheme and token)
AuthorizationHeaders == {Undefined, <<>>, <<98, 32, 116>>}

\* what verifyAccessTokenSignature may do: resolve to true, to false, or reject
Verifications == {"valid", "invalid", "throws"}

\* isAuthorized. The header is split before it is looked at: without a header the
\* property access throws TypeError and the promise of the handler is rejected
isAuthorized(header, verify) ==
    IF header = Undefined
    THEN Throw("TypeError")
    ELSE LET accessToken == ElementAt(Split(header, 32, <<>>), 1)
         IN  IF header # <<>>
             THEN IF verify = "throws" THEN Throw("verifyAccessTokenSignature")
                  ELSE IF verify # "valid"
                  THEN Redirect(UnauthorizedRoute, "INVALID_TOKEN")
                  ELSE NextOk
             ELSE Redirect(UnauthorizedRoute, "TOKEN_NOT_FOUND")

\* an evaluator that wants every role or group of the rule
checkAccessRuleAll(method, rule, creds, credType) ==
    IF method \in rule.methods
    THEN IF credType = "groups" THEN rule.groups.val \subseteq creds
         ELSE IF credType = "roles" THEN rule.roles.val \subseteq creds
         ELSE TRUE
    ELSE FALSE

\* checkAccessRule: creds are the ids of the caller's roles or groups
checkAccessRule(method, rule, creds, credType) ==
    IF method \in rule.methods
    THEN IF credType = "groups" THEN rule.groups.val \cap creds # {}
         ELSE IF credType = "roles" THEN rule.roles.val \cap creds # {}
         ELSE TRUE
    ELSE FALSE

\* the condition checkAccessRule logs when it denies
DenialOf(method, rule, credType) ==
    IF method \notin rule.methods THEN "METHOD_NOT_ALLOWED"
    ELSE IF credType = "groups" THEN "USER_NOT_IN_GROUP" ELSE "USER_NOT_IN_ROLE"

\* the response of a guard that evaluated the access rule
Decision(method, rule, creds, credType) ==
    IF checkAccessRule(method, rule, creds, credType)
    THEN NextOk
    ELSE Redirect(UnauthorizedRoute, DenialOf(method, rule, credType))

\* FetchManager.handlePagination(accessToken, nextLink): the group ids of the pages
\* from the linked one on
handlePagination(following) == UNION {following[i] : i \in 1..Len(following)}

\* the groups handleOverage takes from the directory. dir.value: the group ids of
\* the first response; dir.nextLink: it has a next-page link; dir.following: the
\* pages from the linked one on
OverageGroups(dir) ==
    IF dir.nextLink THEN handlePagination(dir.following) ELSE dir.value

\* a catch block that lets the request through
OnLookupFailureAllow(call) == NextOk

\* the catch blocks of handleOverage: next(error)
OnLookupFailure(call) == NextError(call)

\* claims that keep the overage marker
NewIdTokenClaimsKeepsMarker(claims) == claims

\* newIdTokenClaims: the claims without _claim_names and _claim_sources
NewIdTokenClaims(claims) ==
    [claims EXCEPT !._claim_names = FALSE, !._claim_sources = FALSE]

\* handleOverage. env.silent, env.fetch, env.pagination: "ok" or "throws", what
\* acquireTokenSilent, callApiEndpoint and handlePagination do
handleOverage(sess, method, rule, env) ==
    LET newIdTokenClaims == NewIdTokenClaims(sess.account.idTokenClaims)
        groups == OverageGroups(env.dir)
        s1 == [sess EXCEPT !.account.idTokenClaims =
                  [newIdTokenClaims EXCEPT !.groups = Claim(groups)]]
        paged == env.dir.nextLink
    IN  IF env.silent # "ok"
        THEN GuardOutcome(sess, OnLookupFailure("acquireTokenSilent"),
                          [NoLookup EXCEPT !.silent = TRUE])
        ELSE IF env.fetch # "ok"
        THEN GuardOutcome(sess, OnLookupFailure("callApiEndpoint"),
                          [NoLookup EXCEPT !.silent = TRUE, !.fetch = TRUE])
        ELSE IF paged /\ env.pagination # "ok"
        THEN GuardOutcome(sess, OnLookupFailure("handlePagination"),
                          [NoLookup EXCEPT !.silent = TRUE, !.fetch = TRUE, !.pagination = TRUE])
        ELSE GuardOutcome(s1, Decision(method, rule, s1.account.idTokenClaims.groups.val, "groups"),
                          [silent |-> TRUE, fetch |-> TRUE, pagination |-> paged,
                           evaluated |-> s1.account.idTokenClaims.groups])

\* appSettings.accessMatrix is configured
AccessMatrix == TRUE

\* a choice that takes the roles key when the rule has one
CheckForRolesFirst(rule) == IF rule.roles.def THEN "roles" ELSE "groups"

\* checkFor: groups when options.accessRule has a groups key, roles otherwise
CheckFor(rule) == IF rule.groups.def THEN "groups" ELSE "roles"

\* a test that finds an overage marker in every identity token
OverageOccurredAlways(claims) == TRUE

\* the identity token claims carry an overage marker: _claim_names or _claim_sources
OverageOccurred(claims) == claims._claim_names \/ claims._claim_sources

\* hasAccess for a request of the given method under options.accessRule
hasAccess(sess, method, rule, env) ==
    IF sess # NoSession /\ AccessMatrix
    THEN LET checkFor == CheckFor(rule)
             claims == sess.account.idTokenClaims
         IN  IF ~sess.account.def
             THEN GuardOutcome(sess, Throw("TypeError"), NoLookup)
             ELSE IF checkFor = "groups"
             THEN IF ~claims.groups.def
                  THEN IF OverageOccurred(claims)
                       THEN handleOverage(sess, method, rule, env)
                       ELSE GuardOutcome(sess, Redirect(UnauthorizedRoute, "USER_HAS_NO_GROUP"),
                                         NoLookup)
                  ELSE GuardOutcome(sess, Decision(method, rule, claims.groups.val, "groups"),
                                    [NoLookup EXCEPT !.evaluated = claims.groups])
             ELSE IF ~claims.roles.def
                  THEN GuardOutcome(sess, Redirect(UnauthorizedRoute, "USER_HAS_NO_ROLE"),
                                    NoLookup)
                  ELSE GuardOutcome(sess, Decision(method, rule, claims.roles.val, "roles"),
                                    [NoLookup EXCEPT !.evaluated = claims.roles])
    ELSE GuardOutcome(sess, Redirect(UnauthorizedRoute, "none"), NoLookup)

-----------------------------------------------------------------------------
(* Requests and the environment *)

\* the environment of a callback that makes no code exchange
NoEnv == [exchange |-> "none", account |-> NoAccount, idToken |-> "none"]

\* what acquireTokenByCode and validateIdToken may do
RedirectEnvs ==
    {[exchange |-> "throws", account |-> NoAccount, idToken |-> "none"]}
    \cup {[exchange |-> "ok", account |-> a, idToken |-> "valid"] : a \in Accounts}
    \cup {[exchange |-> "ok", account |-> NoAccount, idToken |-> v] : v \in {"invalid", "throws"}}

\* what acquireTokenSilent may do for a list of scopes
SilentResults(scopes) ==
    {[kind |-> "returns", accessToken |-> AccessTokenFor(scopes), error |-> "none"],
     [kind |-> "returns", accessToken |-> <<>>, error |-> "none"],
     [kind |-> "throws", accessToken |-> <<>>, error |-> "InteractionRequiredAuthError"],
     [kind |-> "throws", accessToken |-> <<>>, error |-> "ClientAuthError"]}

\* where a response has sent the browser: nowhere, to the identity provider with a
\* state, or to a route of the application
NoPending == [kind |-> "none", state |-> <<>>, to |-> <<>>]
AtProvider(state) == [kind |-> "provider", state |-> state, to |-> <<>>]
AtRoute(path) == [kind |-> "route", state |-> <<>>, to |-> path]

\* the history of a specification that reads none
Untracked ==
    [tracked |-> FALSE, issued |-> {}, signIn |-> <<>>, consumed |-> {},
     follow |-> FALSE, pending |-> NoPending, cache |-> {}]

\* the history of a new session: no state was sent to the identity provider, no
\* signIn was made, no callback was given to the code exchange
NoHistory == [Untracked EXCEPT !.tracked = TRUE]

\* the history of a browser that follows every redirect: where it was sent, and
\* the scopes the token cache of the OIDC client holds a token for
Following == [Untracked EXCEPT !.follow = TRUE]

\* the history after a request of signIn or getToken: the state of an authorization
\* redirect that was sent, with the scopes it asked for, and the state of the
\* latest signIn
Issue(h, op, out) ==
    LET sent == out.authCode.called /\ out.res.kind = "redirect"
        t == IF ~h.tracked THEN h
             ELSE [h EXCEPT
                     !.issued = IF sent
                                THEN @ \cup {[state |-> out.authCode.state,
                                              scopes |-> out.authCode.scopes]}
                                ELSE @,
                     !.signIn = IF op = "signIn" THEN out.authCode.state ELSE @]
    IN  IF ~h.follow THEN t
        ELSE [t EXCEPT !.pending = IF sent THEN AtProvider(out.authCode.state) ELSE NoPending]

\* the history after a callback: the state parameter of a callback whose code was
\* given to the exchange; the route a redirect sends the browser to (the
\* unauthorized and error targets are pages that send it nowhere); the scopes of an
\* exchange that succeeded, whose tokens acquireTokenByCode has put in the cache
Consume(h, param, env, out) ==
    LET t == IF h.tracked /\ out.exchange.called
             THEN [h EXCEPT !.consumed = @ \cup {param}]
             ELSE h
    IN  IF ~h.follow THEN t
        ELSE [t EXCEPT
                !.pending = IF out.res.kind = "redirect" /\ out.res.to \in Paths
                            THEN AtRoute(out.res.to)
                            ELSE NoPending,
                !.cache = IF out.exchange.called /\ env.exchange = "ok"
                          THEN @ \cup {out.exchange.request.scopes}
                          ELSE @]

NoRequest ==
    [op |-> "none", pre |-> NoSession, input |-> <<>>, env |-> NoEnv,
     res |-> NoResponse, exchange |-> NoExchange, authCode |-> NoAuthCode,
     lookup |-> NoLookup, seen |-> Untracked]

\* the record of a handled request
Handled(op, input, env, out) ==
    [op |-> op, pre |-> session, input |-> input, env |-> env,
     res |-> out.res, exchange |-> out.exchange, authCode |-> out.authCode,
     lookup |-> out.lookup, seen |-> hist]

-----------------------------------------------------------------------------
(* Actions *)

Init ==
    /\ session = NoSession
    /\ sid = 0
    /\ guids = 0
    /\ signOutPc = "idle"
    /\ loggedOut = {}
    /\ last = NoRequest
    /\ codec = <<>>
    /\ hist = Untracked

\* the session store gives a request without a session a new one
NewSession ==
    /\ last = NoRequest
    /\ session = NoSession
    /\ sid < MaxSessions
    /\ sid' = sid + 1
    /\ session' = FreshSession
    /\ hist' = [hist EXCEPT !.issued = {}, !.signIn = <<>>, !.consumed = {},
                            !.pending = NoPending]
    /\ UNCHANGED <<guids, signOutPc, loggedOut, last, codec>>

SignIn(successRedirect, urlOk) ==
    /\ last = NoRequest
    /\ session # NoSession
    /\ guids < MaxGuids
    /\ LET out == signIn(session, successRedirect, Guid(guids + 1), urlOk)
       IN  /\ session' = out.session
           /\ last' = Handled("signIn", [successRedirect |-> successRedirect], NoEnv, out)
           /\ hist' = Issue(hist, "signIn", out)
    /\ guids' = guids + 1
    /\ UNCHANGED <<sid, signOutPc, loggedOut, codec>>

\* a signOut that redirects right after calling destroy, not in its callback
SignOutStartRedirects ==
    /\ last = NoRequest
    /\ session # NoSession
    /\ signOutPc = "idle"
    /\ session' = [session EXCEPT !.isAuthenticated = "false"]
    /\ signOutPc' = "destroying"
    /\ loggedOut' = loggedOut \cup {sid}
    /\ last' = [NoRequest EXCEPT !.op = "signOut", !.pre = session,
                                 !.res = Redirect(Authority, "none")]
    /\ UNCHANGED <<sid, guids, codec, hist>>

\* signOut up to the call of req.session.destroy
SignOutStart ==
    /\ last = NoRequest
    /\ session # NoSession
    /\ signOutPc = "idle"
    /\ session' = [session EXCEPT !.isAuthenticated = "false"]
    /\ signOutPc' = "destroying"
    /\ last' = [NoRequest EXCEPT !.op = "signOut", !.pre = session]
    /\ UNCHANGED <<sid, guids, loggedOut, codec, hist>>

\* the session is destroyed and the callback of destroy sends the logout redirect
SignOutDestroyed ==
    /\ last = NoRequest
    /\ signOutPc = "destroying"
    /\ session' = NoSession
    /\ signOutPc' = "idle"
    /\ loggedOut' = loggedOut \cup {sid}
    /\ last' = [NoRequest EXCEPT !.op = "signOut", !.pre = session,
                                 !.res = Redirect(Authority, "none")]
    /\ UNCHANGED <<sid, guids, codec, hist>>

HandleRedirect(param, code, env) ==
    /\ last = NoRequest
    /\ session # NoSession
    /\ LET query == [state |-> param, code |-> code]
           out == handleRedirect(session, query, env)
       IN  /\ out.exchange.called <=> env # NoEnv
           /\ session' = out.session
           /\ last' = Handled("handleRedirect", query, env, out)
           /\ hist' = Consume(hist, param, env, out)
    /\ UNCHANGED <<sid, guids, signOutPc, loggedOut, codec>>

GetToken(resource, silent, urlOk) ==
    /\ last = NoRequest
    /\ session # NoSession
    /\ LET originalUrl == RouteOf(resource)
           out == getToken(session, resource, originalUrl, silent, urlOk)
       IN  /\ out.authCode.called \/ urlOk
           /\ session' = out.session
           /\ last' = Handled("getToken",
                              [resource |-> resource, originalUrl |-> originalUrl,
                               silent |-> silent, urlOk |-> urlOk], NoEnv, out)
           /\ hist' = Issue(hist, "getToken", out)
    /\ UNCHANGED <<sid, guids, signOutPc, loggedOut, codec>>

IsAuthenticated ==
    /\ last = NoRequest
    /\ last' = [NoRequest EXCEPT !.op = "isAuthenticated", !.pre = session,
                                 !.input = [calls |-> isAuthenticatedCalls(session)],
                                 !.res = isAuthenticated(session)]
    /\ UNCHANGED <<session, sid, guids, signOutPc, loggedOut, codec, hist>>

\* a request to a route guarded by isAuthorized; the token is verified only when
\* the header is there
IsAuthorized(header, verify) ==
    /\ last = NoRequest
    /\ (verify = "none") <=> (header \in {Undefined, <<>>})
    /\ last' = [NoRequest EXCEPT !.op = "isAuthorized", !.pre = session,
                                 !.input = [header |-> header, verify |-> verify],
                                 !.res = isAuthorized(header, verify)]
    /\ UNCHANGED <<session, sid, guids, signOutPc, loggedOut, codec, hist>>

\* the response has been sent: the request is over
Respond ==
    /\ last # NoRequest
    /\ last' = NoRequest
    /\ UNCHANGED <<session, sid, guids, signOutPc, loggedOut, codec, hist>>

Next ==
    \/ NewSession
    \/ \E p \in Paths, urlOk \in BOOLEAN : SignIn(p, urlOk)
    \/ SignOutStart
    \/ SignOutDestroyed
    \/ \E param \in StateParams, code \in Codes, env \in RedirectEnvs \cup {NoEnv} :
          HandleRedirect(param, code, env)
    \/ \E r \in {ResourceNames[i] : i \in 1..Len(ResourceNames)}, urlOk \in BOOLEAN :
          \E silent \in SilentResults(ScopesOf(r)) : GetToken(r, silent, urlOk)
    \/ IsAuthenticated
    \/ \E header \in AuthorizationHeaders, verify \in Verifications \cup {"none"} :
          IsAuthorized(header, verify)
    \/ Respond

Spec == Init /\ [][Next]_vars

-----------------------------------------------------------------------------
(* The redirect flows of a browser: every callback carries a state that an
   authorization redirect of the session has sent, once or again *)

InitFlows ==
    /\ session = NoSession
    /\ sid = 0
    /\ guids = 0
    /\ signOutPc = "idle"
    /\ loggedOut = {}
    /\ last = NoRequest
    /\ codec = <<>>
    /\ hist = NoHistory

\* the identity provider, or the browser's history, calls back with a state it was
\* given and an authorization code
Callback(env) ==
    \E i \in hist.issued : HandleRedirect(i.state, Str(<<"c">>), env)

\* the code exchanges of the flows: one user signs in
FlowEnvs == {e \in RedirectEnvs : e.account.homeAccountId # Str(<<"e">>)} \cup {NoEnv}

\* the silent acquisitions of the flows: a token, a request for interaction, a failure
FlowSilentResults(scopes) ==
    {r \in SilentResults(scopes) : r.kind = "throws" \/ r.accessToken # <<>>}

NextFlows ==
    \/ NewSession
    \/ \E p \in Paths : SignIn(p, TRUE)
    \/ \E r \in {ResourceNames[i] : i \in 1..Len(ResourceNames)} :
          \E silent \in FlowSilentResults(ScopesOf(r)) : GetToken(r, silent, TRUE)
    \/ \E env \in FlowEnvs : Callback(env)
    \/ Respond

SpecFlows == InitFlows /\ [][NextFlows]_vars

-----------------------------------------------------------------------------
(* A browser that follows every redirect: from signIn or getToken to the identity
   provider, back to the redirect route with the state it was given, and on to
   the path the callback redirects to *)

InitResume ==
    /\ session = NoSession
    /\ sid = 0
    /\ guids = 0
    /\ signOutPc = "idle"
    /\ loggedOut = {}
    /\ last = NoRequest
    /\ codec = <<>>
    /\ hist = Following

\* the user asks to sign in
BrowseSignIn(p) ==
    /\ hist.pending = NoPending
    /\ SignIn(p, TRUE)

\* what acquireTokenSilent does for a resource: a token once a code was exchanged
\* for its scopes; before, it asks for interaction or returns an empty token
SilentFor(r, silent) ==
    IF ScopesOf(r) \in hist.cache
    THEN silent.kind = "returns" /\ silent.accessToken # <<>>
    ELSE silent.accessToken = <<>> /\ silent.error # "ClientAuthError"

\* a request for the route of a resource (/profile, /tenant): isAuthenticated lets
\* it through to getToken
Route(r) ==
    /\ isAuthenticated(session) = NextOk
    /\ \E silent \in SilentResults(ScopesOf(r)) :
          SilentFor(r, silent) /\ GetToken(r, silent, TRUE)

\* the user opens the route of a resource
BrowseRoute(r) ==
    /\ hist.pending = NoPending
    /\ Route(r)

\* the identity provider sends the browser back with the state it was given and a
\* code; the exchange of a code for an access token succeeds
ProviderCallback ==
    /\ hist.pending.kind = "provider"
    /\ \E env \in FlowEnvs \ {NoEnv} :
          /\ Decoded[hist.pending.state].stage = ACQUIRE_TOKEN =>
                (env.exchange = "ok" /\ env.idToken = "valid")
          /\ HandleRedirect(hist.pending.state, Str(<<"c">>), env)

\* the browser follows the redirect of the callback to the route it names;
\* cached: the cache holds a token for the scopes of the resource of the route
ResumeRoute(cached) ==
    /\ hist.pending.kind = "route"
    /\ \E r \in {ResourceNames[i] : i \in 1..Len(ResourceNames)} :
          /\ RouteOf(r) = hist.pending.to
          /\ (ScopesOf(r) \in hist.cache) = cached
          /\ Route(r)

NextResume ==
    \/ NewSession
    \/ \E p \in Paths : BrowseSignIn(p)
    \/ \E r \in {ResourceNames[i] : i \in 1..Len(ResourceNames)} : BrowseRoute(r)
    \/ ProviderCallback
    \/ \E cached \in BOOLEAN : ResumeRoute(cached)
    \/ Respond

\* responses are sent, the provider calls back, and the browser follows the
\* redirect of a callback whose code was exchanged for the token of the route
SpecResume ==
    /\ InitResume
    /\ [][NextResume]_vars
    /\ WF_vars(Respond)
    /\ WF_vars(ProviderCallback)
    /\ WF_vars(ResumeRoute(TRUE))

-----------------------------------------------------------------------------
(* The access guard on a signed-in session *)

Methods == {"GET", "POST"}
GroupIds == {"g1", "g2"}
RoleIds == {"admin", "user"}

\* options.accessRule: methods and a groups key, a roles key or both
AccessRules ==
    {r \in [methods : {{"GET"}, {"POST"}, {"GET", "POST"}},
            groups : {NoClaim, Claim({}), Claim({"g1"}), Claim({"g1", "g2"})},
            roles : {NoClaim, Claim({"admin"})}] :
        r.groups.def \/ r.roles.def}

\* the identity token claims of the signed-in accounts
AccessClaims ==
    [groups : {NoClaim} \cup {Claim(g) : g \in SUBSET GroupIds},
     roles : {NoClaim} \cup {Claim(r) : r \in SUBSET RoleIds},
     _claim_names : BOOLEAN,
     _claim_sources : BOOLEAN]

\* a session a sign-in has completed on, for the account with claims c
SignedIn(c) ==
    [FreshSession EXCEPT
        !.isAuthenticated = "true",
        !.nonce = Guid(1),
        !.account = [def |-> TRUE, homeAccountId |-> Str(<<"a">>), idTokenClaims |-> c],
        !.authCodeRequest = [def |-> TRUE, scopes |-> OIDC_DEFAULT_SCOPES,
                             state |-> Encoded[[stage |-> SIGN_IN, path |-> Str(<<"/","p">>),
                                                nonce |-> Guid(1)]]],
        !.tokenRequest = [def |-> TRUE, scopes |-> OIDC_DEFAULT_SCOPES, code |-> Str(<<"c">>)]]

\* the pages of group ids a directory may hold
PageSets == {{}, {"g1"}, {"g2"}}
RECURSIVE PageSeqs(_)
PageSeqs(n) ==
    IF n = 0 THEN {<<>>}
    ELSE PageSeqs(n - 1) \cup {Append(q, x) : q \in {q \in PageSeqs(n - 1) : Len(q) = n - 1},
                                               x \in PageSets}

\* the directory response without a next-page link
NoDir == [value |-> {}, nextLink |-> FALSE, following |-> <<>>]

\* what the calls of overage resolution may do
OverageEnvs ==
    {[silent |-> "throws", fetch |-> "none", pagination |-> "none", dir |-> NoDir],
     [silent |-> "ok", fetch |-> "throws", pagination |-> "none", dir |-> NoDir]}
    \cup {[silent |-> "ok", fetch |-> "ok", pagination |-> "none",
           dir |-> [value |-> v, nextLink |-> FALSE, following |-> <<>>]] : v \in PageSets}
    \cup {[silent |-> "ok", fetch |-> "ok", pagination |-> "throws",
           dir |-> [value |-> v, nextLink |-> TRUE, following |-> <<>>]] : v \in PageSets}
    \cup {[silent |-> "ok", fetch |-> "ok", pagination |-> "ok",
           dir |-> [value |-> v, nextLink |-> TRUE, following |-> f]] :
             v \in PageSets, f \in PageSeqs(MaxPages) \ {<<>>}}

\* the environment of a hasAccess request that makes no directory lookup
NoOverageEnv == [silent |-> "none", fetch |-> "none", pagination |-> "none", dir |-> NoDir]

InitAccess ==
    /\ session \in {NoSession, FreshSession} \cup {SignedIn(c) : c \in AccessClaims}
    /\ sid = 1
    /\ guids = 1
    /\ signOutPc = "idle"
    /\ loggedOut = {}
    /\ last = NoRequest
    /\ codec = <<>>
    /\ hist = Untracked

HasAccess(method, rule, env) ==
    /\ last = NoRequest
    /\ LET out == hasAccess(session, method, rule, env)
       IN  /\ out.lookup.silent <=> env # NoOverageEnv
           /\ session' = out.session
           /\ last' = Handled("hasAccess", [method |-> method, rule |-> rule], env, out)
    /\ UNCHANGED <<sid, guids, signOutPc, loggedOut, codec, hist>>

NextAccess ==
    \/ \E m \in Methods, r \in AccessRules, env \in OverageEnvs \cup {NoOverageEnv} :
          HasAccess(m, r, env)
    \/ Respond

SpecAccess == InitAccess /\ [][NextAccess]_vars

-----------------------------------------------------------------------------
(* The state codec on its own *)

\* the characters of the paths of the codec specification: / p " \ e-acute newline
PathChars == {47, 112, 34, 92, 233, 10}

RECURSIVE StringsUpTo(_)
StringsUpTo(n) ==
    IF n = 0 THEN {<<>>}
    ELSE StringsUpTo(n - 1) \cup {Append(q, c) : q \in {q \in StringsUpTo(n - 1) : Len(q) = n - 1},
                                                  c \in PathChars}

\* the valid (stage, path, nonce)
CodecInputs ==
    [stage : {SIGN_IN, ACQUIRE_TOKEN},
     path : StringsUpTo(MaxPathLen) \cup {Undefined},
     nonce : {Guid(1), Undefined}]

NoBlob == [ok |-> FALSE, stage |-> Undefined, path |-> Undefined, nonce |-> Undefined]

InitCodec ==
    /\ session = NoSession
    /\ sid = 0
    /\ guids = 0
    /\ signOutPc = "idle"
    /\ loggedOut = {}
    /\ last = NoRequest
    /\ codec \in {[pc |-> "input", input |-> x, param |-> <<>>, state |-> NoBlob] : x \in CodecInputs}
    /\ hist = Untracked

\* signIn and getToken: base64Encode(JSON.stringify(...))
Encode ==
    /\ codec.pc = "input"
    /\ codec' = [codec EXCEPT !.pc = "encoded", !.param = encode(codec.input)]
    /\ UNCHANGED <<session, sid, guids, signOutPc, loggedOut, last, hist>>

\* handleRedirect: JSON.parse(base64Decode(...))
Decode ==
    /\ codec.pc = "encoded"
    /\ codec' = [codec EXCEPT !.pc = "decoded", !.state = decode(codec.param)]
    /\ UNCHANGED <<session, sid, guids, signOutPc, loggedOut, last, hist>>

NextCodec == Encode \/ Decode

SpecCodec == InitCodec /\ [][NextCodec]_vars

-----------------------------------------------------------------------------
(* Properties *)

\* the state a callback carries, when its state parameter is there
CallbackState == Decoded[last.input.state]

\* the request being answered is a callback whose state parameter decodes
IsCallback ==
    /\ last.op = "handleRedirect"
    /\ last.input.state \notin {Undefined, <<>>}
    /\ CallbackState.ok

\* the request being answered is a SIGN_IN callback with the nonce of the session
\* whose code was exchanged
IsSignInExchange ==
    /\ IsCallback
    /\ CallbackState.nonce = last.pre.nonce
    /\ CallbackState.stage = SIGN_IN
    /\ last.env.exchange = "ok"

\* C1: a callback whose state.nonce differs from session.nonce is redirected to the
\* unauthorized target whatever its stage and path; no code exchange is made and
\* isAuthenticated, account, tokenRequest and remoteResources stay as they were
C1_NonceMismatchIsDenied ==
    (IsCallback /\ CallbackState.nonce # last.pre.nonce) =>
        /\ last.res.kind = "redirect"
        /\ last.res.to = UnauthorizedRoute
        /\ ~last.exchange.called
        /\ session.isAuthenticated = last.pre.isAuthenticated
        /\ session.account = last.pre.account
        /\ session.tokenRequest = last.pre.tokenRequest
        /\ session.remoteResources = last.pre.remoteResources

\* C1 witness: a SIGN_IN callback with a code and the nonce of an earlier signIn
\* reaches a session that is ready for the exchange
C1_Witness ==
    /\ IsCallback
    /\ CallbackState.nonce = Guid(1)
    /\ last.pre.nonce = Guid(2)
    /\ CallbackState.stage = SIGN_IN
    /\ last.input.code # Undefined
    /\ last.pre.tokenRequest.def
    /\ last.res.to = UnauthorizedRoute

\* C2: a SIGN_IN callback with the nonce of the session, a code exchange that
\* succeeds and an identity token the validator accepts sets isAuthenticated, sets
\* account to the account of the exchange and redirects to state.path; the state
\* signIn creates carries its successRedirect as path
C2_SignInCompletes ==
    /\ (IsSignInExchange /\ last.env.idToken = "valid") =>
          /\ session.isAuthenticated = "true"
          /\ session.account = last.env.account
          /\ last.res.kind = "redirect"
          /\ last.res.to = CallbackState.path
    /\ last.op = "signIn" =>
          /\ last.authCode.called
          /\ decode(last.authCode.state) =
                [ok |-> TRUE, stage |-> SIGN_IN, path |-> last.input.successRedirect,
                 nonce |-> session.nonce]

\* C2 witness: the sign-in of a session that was not signed in completes with a
\* redirect to a path that differs from the fixed routes
C2_Witness ==
    /\ IsSignInExchange
    /\ last.env.idToken = "valid"
    /\ last.pre.isAuthenticated = "undefined"
    /\ last.pre.account = EmptyAccount
    /\ last.res.to = Str(<<"/","t">>)

\* C3 as claimed: after a SIGN_IN callback whose identity token the validator
\* reports invalid, isAuthenticated is unset or false and the response is the
\* redirect to the unauthorized target, in whatever session state it arrives
C3_InvalidTokenLeavesUnauthenticated ==
    (IsSignInExchange /\ last.env.idToken = "invalid") =>
        /\ session.isAuthenticated # "true"
        /\ last.res.kind = "redirect"
        /\ last.res.to = UnauthorizedRoute

\* C3 amended: a SIGN_IN callback whose identity token the validator reports
\* invalid leaves isAuthenticated and account as they were before it (unset or false
\* unless the session was signed in already) and redirects to the unauthorized target
C3_InvalidTokenChangesNothing ==
    (IsSignInExchange /\ last.env.idToken = "invalid") =>
        /\ session.isAuthenticated = last.pre.isAuthenticated
        /\ session.account = last.pre.account
        /\ last.res.kind = "redirect"
        /\ last.res.to = UnauthorizedRoute

\* C3 witness: an invalid identity token reaches a session that is not signed in
C3_Witness ==
    /\ IsSignInExchange
    /\ last.env.idToken = "invalid"
    /\ last.pre.isAuthenticated = "undefined"
    /\ session.isAuthenticated = "undefined"

\* the session the store holds for a session identifier
SessionWithId(id) == IF sid = id THEN session ELSE NoSession

\* C4: wherever the logout redirect of signOut has been observed, the session it
\* was sent for no longer exists, and an isAuthenticated guard on that session
\* identifier does not pass
C4_LogoutAfterDestroy ==
    /\ \A id \in loggedOut :
          /\ SessionWithId(id) = NoSession
          /\ isAuthenticated(SessionWithId(id)).kind # "next"
    /\ (last.op = "signOut" /\ last.res.kind = "redirect") => sid \in loggedOut

\* C4 witness: the logout redirect of a session that had signed in is observed
C4_Witness ==
    /\ last.op = "signOut"
    /\ last.res.kind = "redirect"
    /\ last.pre.account \in Accounts
    /\ sid \in loggedOut

\* the request being answered is a getToken whose silent acquisition asked for
\* interaction, or returned an empty access token
IsGetToken == last.op = "getToken"
SilentEmpty ==
    IsGetToken /\ last.input.silent.kind = "returns" /\ last.input.silent.accessToken = <<>>
SilentInteraction ==
    /\ IsGetToken
    /\ last.input.silent.kind = "throws"
    /\ last.input.silent.error = "InteractionRequiredAuthError"

\* the interactive fallback of getToken: no next(), the token of the resource is
\* null, getAuthCode gets an ACQUIRE_TOKEN state for the request URL, and the
\* response is the redirect to the authorization URL of that state whenever the
\* session holds the requests of a signIn and getAuthCodeUrl succeeds
InteractiveFallback ==
    /\ last.res.kind # "next"
    /\ session.remoteResources.def
    /\ session.remoteResources.map[last.input.resource] = Null
    /\ last.authCode.called
    /\ last.authCode.scopes = ScopesOf(last.input.resource)
    /\ decode(last.authCode.state) =
          [ok |-> TRUE, stage |-> ACQUIRE_TOKEN, path |-> last.input.originalUrl,
           nonce |-> last.pre.nonce]
    /\ (last.pre.authCodeRequest.def /\ last.pre.tokenRequest.def) =>
          IF last.input.urlOk
          THEN last.res.kind = "redirect" /\ last.res.to = Authority \o last.authCode.state
          ELSE last.res.kind = "nextError" /\ last.res.log = "AUTH_CODE_NOT_OBTAINED"

\* C5: a silent acquisition that returns an empty access token is no success: it
\* takes the interactive fallback exactly as InteractionRequired does; any other
\* failure of the silent acquisition goes to next(error) without a redirect
C5_EmptyTokenFallsBack ==
    /\ (SilentEmpty \/ SilentInteraction) => InteractiveFallback
    /\ (IsGetToken /\ last.input.silent.kind = "throws" /\ ~SilentInteraction) =>
          /\ last.res.kind = "nextError"
          /\ ~last.authCode.called

\* C5 witness: an empty access token on a signed-in session ends in the redirect
\* to the authorization URL
C5_Witness ==
    /\ SilentEmpty
    /\ last.pre.isAuthenticated = "true"
    /\ last.res.kind = "redirect"
    /\ last.res.to = Authority \o last.authCode.state

\* the hasAccess request being answered evaluated its access rule: the kind of
\* credential it selected, the ids of the rule and the ids of the caller
IsHasAccess == last.op = "hasAccess"
RuleEvaluated == IsHasAccess /\ last.lookup.evaluated.def
CredType == IF last.input.rule.groups.def THEN "groups" ELSE "roles"
RuleIds == IF CredType = "groups" THEN last.input.rule.groups.val ELSE last.input.rule.roles.val
CallerIds ==
    IF last.lookup.silent THEN session.account.idTokenClaims.groups.val
    ELSE IF CredType = "groups" THEN last.pre.account.idTokenClaims.groups.val
    ELSE last.pre.account.idTokenClaims.roles.val

\* C6: the evaluator allows exactly when the method is in rule.methods and some
\* role (or group) of the rule is among the caller's; a method outside rule.methods
\* denies whatever the credentials, no common element denies whatever the method
C6_AccessRuleDecision ==
    RuleEvaluated =>
        /\ last.lookup.evaluated.val = CallerIds
        /\ (last.res.kind = "next") <=>
              (/\ last.input.method \in last.input.rule.methods
               /\ \E id \in RuleIds : id \in CallerIds)
        /\ last.res.kind # "next" =>
              (last.res.kind = "redirect" /\ last.res.to = UnauthorizedRoute)

\* C6 witness: a GET under the rule {methods: [GET], roles: [admin]} by a caller
\* with the roles admin and user is allowed
C6_Witness ==
    /\ RuleEvaluated
    /\ last.input.method = "GET"
    /\ last.input.rule = [methods |-> {"GET"}, groups |-> NoClaim, roles |-> Claim({"admin"})]
    /\ CallerIds = {"admin", "user"}
    /\ last.res.kind = "next"

\* the hasAccess request being answered resolved an overage over several pages
PagedOverage == IsHasAccess /\ last.lookup.pagination /\ last.env.pagination = "ok"

\* the group ids of all pages of the directory: the first response and the following
AllPages == last.env.dir.value \cup handlePagination(last.env.dir.following)

\* C7: when the first directory response has a next-page link, the access rule is
\* evaluated against the union of the group ids of all pages, the first page's
\* included, and that union is stored as the groups claim of the account
C7_AllPagesEvaluated ==
    PagedOverage =>
        /\ last.lookup.evaluated = Claim(AllPages)
        /\ session.account.idTokenClaims.groups = Claim(AllPages)
        /\ (last.res.kind = "next") <=>
              (/\ last.input.method \in last.input.rule.methods
               /\ last.input.rule.groups.val \cap AllPages # {})

\* a call of overage resolution failed
LookupFailed ==
    /\ IsHasAccess
    /\ \/ last.env.silent = "throws"
       \/ last.env.fetch = "throws"
       \/ last.env.pagination = "throws"

\* C8: when the silent acquisition, the directory fetch or the pagination call of
\* overage resolution fails, hasAccess ends with next(error): neither next() nor a
\* redirect to the unauthorized target
C8_OverageFailsClosed ==
    LookupFailed =>
        /\ last.res.kind = "nextError"
        /\ last.res.kind # "next"
        /\ last.res.kind # "redirect"
        /\ ~last.lookup.evaluated.def

\* C8 witness: the pagination call fails for a caller whose first page alone
\* would have passed the rule
C8_Witness ==
    /\ LookupFailed
    /\ last.env.pagination = "throws"
    /\ last.input.method \in last.input.rule.methods
    /\ last.input.rule.groups.val \cap last.env.dir.value # {}
    /\ last.res.kind = "nextError"

\* C9: decoding the encoding of a valid (stage, path, nonce) gives a state with the
\* same stage, path and nonce
C9_CodecRoundTrip ==
    codec.pc = "decoded" =>
        /\ codec.state.ok
        /\ codec.state.stage = codec.input.stage
        /\ codec.state.path = codec.input.path
        /\ codec.state.nonce = codec.input.nonce

\* C9 witness: a state whose path holds a quote and a non-ASCII character came back
C9_Witness ==
    /\ codec.pc = "decoded"
    /\ codec.input.path = <<34, 233>>
    /\ codec.input.nonce = Guid(1)
    /\ codec.state.path = <<34, 233>>

\* C10: a callback without a state parameter is redirected to the unauthorized
\* target (STATE_NOT_FOUND); no code exchange is made and the session is unchanged
C10_MissingStateIsDenied ==
    (last.op = "handleRedirect" /\ last.input.state \in {Undefined, <<>>}) =>
        /\ last.res = Redirect(UnauthorizedRoute, "STATE_NOT_FOUND")
        /\ ~last.exchange.called
        /\ session = last.pre

\* C10 witness: a callback with a code and no state reaches a session that waits
\* for the callback of its signIn
C10_Witness ==
    /\ last.op = "handleRedirect"
    /\ last.input.state = Undefined
    /\ last.input.code # Undefined
    /\ last.pre.tokenRequest.def
    /\ last.pre.nonce # Undefined
    /\ last.res.to = UnauthorizedRoute

\* C11 as claimed: a callback whose state parameter is there but is no encoded JSON
\* state is redirected to the unauthorized target, and no exception leaves the handler
C11_MalformedStateIsDenied ==
    (/\ last.op = "handleRedirect"
     /\ last.input.state \notin {Undefined, <<>>}
     /\ ~decode(last.input.state).ok) =>
        /\ last.res.kind # "throw"
        /\ last.res.kind = "redirect"
        /\ last.res.to = UnauthorizedRoute

\* C12 as claimed: a callback with the nonce of the session whose stage is neither
\* SIGN_IN nor ACQUIRE_TOKEN is redirected to the unauthorized target, as every
\* other denial is; no code exchange is made and the session is unchanged
C12_UnknownStageIsUnauthorized ==
    (/\ IsCallback
     /\ CallbackState.nonce = last.pre.nonce
     /\ CallbackState.stage \notin {SIGN_IN, ACQUIRE_TOKEN}) =>
        /\ last.res.kind = "redirect"
        /\ last.res.to = UnauthorizedRoute
        /\ ~last.exchange.called
        /\ session = last.pre

\* C13 as claimed: isAuthorized redirects to the unauthorized target when the
\* request has no Authorization header and when the token fails verification, calls
\* next() only when verification succeeds, and without a header neither throws nor
\* leaves the request unanswered
C13_IsAuthorizedDecides ==
    last.op = "isAuthorized" =>
        /\ (last.input.header = Undefined \/ last.input.verify = "invalid") =>
              (last.res.kind = "redirect" /\ last.res.to = UnauthorizedRoute)
        /\ last.res.kind = "next" => last.input.verify = "valid"
        /\ last.input.header = Undefined => last.res.kind \notin {"throw", "none"}

\* C14: the isAuthenticated guard calls next() exactly when the request has a
\* session whose isAuthenticated is true; with no session, or the flag unset or
\* false, it redirects to the unauthorized target; it makes one of the two calls, never both
C14_GuardPassesIffAuthenticated ==
    last.op = "isAuthenticated" =>
        /\ Len(last.input.calls) = 1
        /\ (last.res.kind = "next") <=>
              (last.pre # NoSession /\ last.pre.isAuthenticated = "true")
        /\ last.res.kind # "next" =>
              (last.res.kind = "redirect" /\ last.res.to = UnauthorizedRoute)
        /\ session = last.pre

\* C14 witness: the guard lets a request through on a session that a SIGN_IN
\* callback has signed in
C14_Witness ==
    /\ last.op = "isAuthenticated"
    /\ last.pre # NoSession
    /\ last.pre.isAuthenticated = "true"
    /\ last.pre.account \in Accounts
    /\ last.res.kind = "next"

\* the callback being answered had the nonce of the session and its code was
\* given to the exchange
IsExchange ==
    /\ IsCallback
    /\ CallbackState.nonce = last.pre.nonce
    /\ last.exchange.called

\* C18: in a SIGN_IN callback a failure of the code exchange or of the call of
\* the identity token validator goes to next(error), not to a redirect, and leaves
\* isAuthenticated and account as they were; in an ACQUIRE_TOKEN callback a failure
\* of the exchange goes to next(error) and leaves the access tokens as they were
C18_ExchangeFailureIsSurfaced ==
    /\ (/\ IsExchange
        /\ CallbackState.stage = SIGN_IN
        /\ (last.env.exchange = "throws" \/ last.env.idToken = "throws")) =>
          /\ last.res.kind = "nextError"
          /\ session.isAuthenticated = last.pre.isAuthenticated
          /\ session.account = last.pre.account
    /\ (/\ IsExchange
        /\ CallbackState.stage = ACQUIRE_TOKEN
        /\ last.env.exchange = "throws") =>
          /\ last.res.kind = "nextError"
          /\ session.remoteResources = last.pre.remoteResources

\* C18 witness: the exchange of an ACQUIRE_TOKEN callback fails on a session that
\* waits for the token of the resource
C18_Witness ==
    /\ IsExchange
    /\ CallbackState.stage = ACQUIRE_TOKEN
    /\ last.env.exchange = "throws"
    /\ last.pre.remoteResources.def
    /\ last.pre.tokenRequest.scopes = ScopesOf("graphAPI")
    /\ last.pre.remoteResources.map = [n \in {"graphAPI"} |-> Null]
    /\ last.res = NextError("TOKEN_ACQUISITION_FAILED")

\* the access token a session shows for a resource; Null when it shows none
TokenOf(sess, r) ==
    IF sess # NoSession /\ sess.remoteResources.def /\ r \in DOMAIN sess.remoteResources.map
    THEN sess.remoteResources.map[r]
    ELSE Null

\* the request r was answered by a successful acquisition for resource n: a silent
\* acquisition of getToken that returned a token, or the exchange of an honoured
\* ACQUIRE_TOKEN callback made for the scopes of n
AcquiredBy(r, n) ==
    \/ /\ r.op = "getToken"
       /\ r.input.resource = n
       /\ r.input.silent.kind = "returns"
       /\ r.input.silent.accessToken \notin {<<>>, Undefined, Null}
    \/ /\ r.op = "handleRedirect"
       /\ r.exchange.called
       /\ r.env.exchange = "ok"
       /\ r.input.state \notin {Undefined, <<>>}
       /\ Decoded[r.input.state].stage = ACQUIRE_TOKEN
       /\ getResourceNameFromScopes(r.exchange.request.scopes) = n

\* a getToken for the resource that ended without a token leaves its token null
NoStaleToken ==
    (last.op = "getToken" /\ last.res.kind # "next") =>
        TokenOf(session, last.input.resource) = Null

\* a token a session shows was put there by a successful acquisition for its
\* resource in this step, or was there before a step that is no getToken for it
TokenStep ==
    \A n \in {ResourceNames[i] : i \in 1..Len(ResourceNames)} :
        TokenOf(session', n) # Null =>
            \/ AcquiredBy(last', n)
            \/ /\ TokenOf(session', n) = TokenOf(session, n)
               /\ ~(last'.op = "getToken" /\ last'.input.resource = n)

\* C16: the access token of a resource is null unless an acquisition for that
\* resource has succeeded since the most recent getToken for it: every getToken
\* resets it to null first, so that a failed or pending attempt shows no token of an
\* earlier one, and only a successful acquisition for the resource writes a token
C16_TokenNullUntilAcquired == []NoStaleToken /\ [][TokenStep]_vars

\* C16 witness: a getToken whose silent acquisition fails for a resource that held
\* a token of an earlier acquisition leaves the token null
C16_Witness ==
    /\ last.op = "getToken"
    /\ last.input.silent.kind = "throws"
    /\ last.input.silent.error = "ClientAuthError"
    /\ TokenOf(last.pre, last.input.resource) # Null
    /\ TokenOf(session, last.input.resource) = Null

\* C15 as claimed: once a callback with a state has been processed with the nonce
\* of the session, a later callback of the session with the same state is not
\* honoured: its code is not given to the exchange
C15_StateConsumedOnce ==
    (last.op = "handleRedirect" /\ last.input.state \in last.seen.consumed) =>
        ~last.exchange.called

\* the states of the authorization redirects the session had sent before the request
IssuedStates == {i.state : i \in last.seen.issued}

\* C17: every signIn gives the session a nonce it did not have and no state of the
\* session carries, and its SIGN_IN state carries that nonce; after a later signIn,
\* a callback with the state of an earlier signIn is redirected to the unauthorized
\* target, its code is not exchanged and isAuthenticated stays as it was
C17_EarlierSignInIsDenied ==
    /\ last.op = "signIn" =>
          /\ session.nonce \notin {Undefined, last.pre.nonce}
          /\ session.nonce \notin {decode(p).nonce : p \in IssuedStates}
          /\ decode(last.authCode.state) =
                [ok |-> TRUE, stage |-> SIGN_IN, path |-> last.input.successRedirect,
                 nonce |-> session.nonce]
    /\ (/\ last.op = "handleRedirect"
        /\ last.input.state \in IssuedStates
        /\ decode(last.input.state).stage = SIGN_IN
        /\ last.input.state # last.seen.signIn) =>
          /\ last.res.kind = "redirect"
          /\ last.res.to = UnauthorizedRoute
          /\ ~last.exchange.called
          /\ session.isAuthenticated = last.pre.isAuthenticated
          /\ session.account = last.pre.account

\* C17 witness: after two signIn requests of one session, a callback with the state
\* of the first, with a code, is denied on the session that is not signed in
C17_Witness ==
    /\ last.op = "handleRedirect"
    /\ last.input.state \in IssuedStates
    /\ last.seen.signIn \in IssuedStates
    /\ decode(last.input.state).stage = SIGN_IN
    /\ last.input.state # last.seen.signIn
    /\ last.pre.isAuthenticated = "undefined"
    /\ last.res = Redirect(UnauthorizedRoute, "NONCE_MISMATCH")
    /\ session.isAuthenticated = "undefined"

\* the scopes the redirects that sent the state of the callback had asked for
ScopesOfCallback == {i.scopes : i \in {j \in last.seen.issued : j.state = last.input.state}}

\* the resources whose token the request changed
TokensChanged ==
    {n \in {ResourceNames[i] : i \in 1..Len(ResourceNames)} :
        TokenOf(session, n) # TokenOf(last.pre, n)}

FellBack(r) ==
    /\ last.op = "getToken"
    /\ last.input.resource = r
    /\ last.authCode.called
    /\ last.res.kind = "redirect"

\* the request being answered is a getToken for resource r at its route that
\* called next() with the access token of r in the session
PassedWithToken(r) ==
    /\ last.op = "getToken"
    /\ last.input.resource = r
    /\ last.input.originalUrl = RouteOf(r)
    /\ last.res.kind = "next"
    /\ TokenOf(session, r) # Null

\* the state of the fallback names the request URL, and the callback of an
\* ACQUIRE_TOKEN state whose exchange succeeds redirects to the path of its state
ResumesAtUrl ==
    /\ \A r \in {ResourceNames[i] : i \in 1..Len(ResourceNames)} :
          FellBack(r) =>
              /\ decode(last.authCode.state).path = last.input.originalUrl
              /\ hist.pending = AtProvider(last.authCode.state)
    /\ (IsExchange /\ CallbackState.stage = ACQUIRE_TOKEN) =>
          /\ last.res = Redirect(CallbackState.path, "none")
          /\ hist.pending = AtRoute(CallbackState.path)

\* C20: when getToken at URL u falls back to the interactive path, its state
\* names u; when the provider calls back with that state, the exchange succeeds and
\* the silent acquisition succeeds once the code is exchanged, the callback
\* redirects to u and the getToken entered again at u calls next() with the access
\* token of the resource: the redirects do not go on forever
C20_FallbackResumes ==
    /\ []ResumesAtUrl
    /\ \A r \in {ResourceNames[i] : i \in 1..Len(ResourceNames)} :
          FellBack(r) ~> PassedWithToken(r)

\* C20 witness: the getToken entered again after the callback stored the token
\* calls next() with the token of the silent acquisition
C20_Witness ==
    /\ PassedWithToken("armAPI")
    /\ ScopesOf("armAPI") \in hist.cache
    /\ TokenOf(last.pre, "armAPI") # Null
    /\ last.pre.tokenRequest.code = Str(<<"c">>)
    /\ last.pre.tokenRequest.scopes = ScopesOf("armAPI")

\* the request being answered is a hasAccess on a session that holds an account
IsAccessCheck ==
    /\ last.op = "hasAccess"
    /\ last.pre # NoSession
    /\ last.pre.account.def

\* the request was denied by the redirect to the unauthorized target, without a
\* call of the directory and without a change of the session
DeniedWithoutLookup ==
    /\ last.res.kind = "redirect"
    /\ last.res.to = UnauthorizedRoute
    /\ last.lookup = NoLookup
    /\ session = last.pre

\* C21: hasAccess denies with the redirect to the unauthorized target, without
\* next() and without a directory lookup, when the rule has a groups key and the
\* claims have neither groups nor an overage marker, and when the rule has no groups
\* key and the claims have no roles; overage resolution runs only for a rule with a
\* groups key on claims without groups that carry an overage marker
C21_DeniesWithoutClaims ==
    IsAccessCheck =>
        LET rule == last.input.rule
            claims == last.pre.account.idTokenClaims
        IN  /\ (/\ rule.groups.def
                /\ ~claims.groups.def
                /\ ~claims._claim_names
                /\ ~claims._claim_sources) =>
                  /\ DeniedWithoutLookup
                  /\ last.res.log = "USER_HAS_NO_GROUP"
            /\ (~rule.groups.def /\ ~claims.roles.def) =>
                  /\ DeniedWithoutLookup
                  /\ last.res.log = "USER_HAS_NO_ROLE"
            /\ last.lookup.silent =>
                  /\ rule.groups.def
                  /\ ~claims.groups.def
                  /\ claims._claim_names \/ claims._claim_sources

\* C21 witness: a rule with groups and roles on an account that has the role of the
\* rule, no groups and no overage marker is denied for the missing groups
C21_Witness ==
    /\ IsAccessCheck
    /\ last.input.rule.groups = Claim({"g1"})
    /\ last.input.rule.roles = Claim({"admin"})
    /\ last.input.method \in last.input.rule.methods
    /\ last.pre.account.idTokenClaims =
          [EmptyClaims EXCEPT !.roles = Claim({"admin"})]
    /\ last.res = Redirect(UnauthorizedRoute, "USER_HAS_NO_GROUP")
    /\ last.lookup = NoLookup

\* the session with another roles claim on its account
WithRoles(sess, roles) == [sess EXCEPT !.account.idTokenClaims.roles = roles]

\* the roles keys a rule may have, and none
RuleRoles == {NoClaim} \cup {Claim(r) : r \in SUBSET RoleIds}

\* the roles claims an account may have, and none
RolesClaims == {NoClaim} \cup {Claim(r) : r \in SUBSET RoleIds}

\* C22: under a rule with a groups key, whether or not it has a roles key, the
\* outcome of hasAccess is that of the group claims alone: with any other roles key
\* on the rule and any other roles claim on the account the response, the directory
\* calls and the claims written are the same, the credentials evaluated are the
\* groups, and no denial is one for roles; roles are checked only without a groups key
C22_GroupsTakePrecedence ==
    IsAccessCheck =>
        LET rule == last.input.rule
        IN  /\ rule.groups.def =>
                  /\ \A rr \in RuleRoles, cr \in RolesClaims :
                        LET out == hasAccess(WithRoles(last.pre, cr), last.input.method,
                                             [rule EXCEPT !.roles = rr], last.env)
                        IN  /\ out.res = last.res
                            /\ out.lookup = last.lookup
                            /\ out.session = WithRoles(session, cr)
                  /\ last.lookup.evaluated.def =>
                        last.lookup.evaluated = session.account.idTokenClaims.groups
            /\ last.res.log \in {"USER_HAS_NO_ROLE", "USER_NOT_IN_ROLE"} => ~rule.groups.def
            /\ (~rule.groups.def /\ last.lookup.evaluated.def) =>
                  last.lookup.evaluated = last.pre.account.idTokenClaims.roles

\* C22 witness: a rule with groups and roles denies the account that has the role of
\* the rule and none of its groups
C22_Witness ==
    /\ IsAccessCheck
    /\ last.input.rule.groups = Claim({"g1"})
    /\ last.input.rule.roles = Claim({"admin"})
    /\ last.input.method \in last.input.rule.methods
    /\ last.pre.account.idTokenClaims.groups = Claim({"g2"})
    /\ last.pre.account.idTokenClaims.roles = Claim({"admin"})
    /\ last.res = Redirect(UnauthorizedRoute, "USER_NOT_IN_GROUP")

\* C23 as claimed: every code exchange of handleRedirect is made with
\* tokenRequest.code set to the code of the callback being processed, and none is
\* made with an empty or absent code: a callback with the state of the session and
\* no code parameter invokes no exchange
C23_ExchangeHasCode ==
    (last.op = "handleRedirect" /\ last.exchange.called) =>
        /\ last.exchange.request.code = last.input.code
        /\ session.tokenRequest.code = last.input.code
        /\ last.exchange.request.code \notin {Undefined, Null, <<>>}

\* the session exists and its isAuthenticated is true
Authenticated(sess) == sess # NoSession /\ sess.isAuthenticated = "true"

\* the session holds a nonce, an authCodeRequest and a tokenRequest
HoldsRequests(sess) ==
    /\ sess # NoSession
    /\ sess.nonce # Undefined
    /\ sess.authCodeRequest.def
    /\ sess.tokenRequest.def

\* an authenticated session holds the nonce and the request objects
AuthenticatedHoldsRequests == Authenticated(session) => HoldsRequests(session)

\* isAuthenticated becomes true only in a SIGN_IN callback with the nonce of the
\* session whose code exchange succeeded and whose identity token was accepted
SetOnlyBySignInCallback ==
    (Authenticated(session') /\ ~Authenticated(session)) =>
        /\ session # NoSession
        /\ last'.op = "handleRedirect"
        /\ last'.input.state \notin {Undefined, <<>>}
        /\ Decoded[last'.input.state].ok
        /\ Decoded[last'.input.state].stage = SIGN_IN
        /\ Decoded[last'.input.state].nonce = session.nonce
        /\ last'.exchange.called
        /\ last'.env.exchange = "ok"
        /\ last'.env.idToken = "valid"

\* a session comes to hold a nonce, an authCodeRequest or a tokenRequest only in a
\* signIn, and a nonce changes only in a signIn
CreatedOnlyBySignIn ==
    session' # NoSession =>
        LET before == IF session = NoSession THEN FreshSession ELSE session
        IN  (\/ session'.nonce # before.nonce
             \/ session'.authCodeRequest.def # before.authCodeRequest.def
             \/ session'.tokenRequest.def # before.tokenRequest.def) =>
                /\ last'.op = "signIn"
                /\ HoldsRequests(session')

\* C24: isAuthenticated is true only after a SIGN_IN callback with the nonce of the
\* session completed a successful code exchange with an identity token the
\* validator accepted, since the session was created; no other operation sets it;
\* a session on which it is true holds the nonce, the authCodeRequest and the
\* tokenRequest, which only a signIn creates
C24_AuthenticatedOnlyBySignIn ==
    /\ []AuthenticatedHoldsRequests
    /\ [][SetOnlyBySignInCallback /\ CreatedOnlyBySignIn]_vars

\* C24 witness: on a session that signIn prepared and getToken then asked a token
\* for, the SIGN_IN callback sets isAuthenticated
C24_Witness ==
    /\ IsSignInExchange
    /\ last.env.idToken = "valid"
    /\ ~Authenticated(last.pre)
    /\ Authenticated(session)
    /\ session.nonce = CallbackState.nonce
    /\ session.tokenRequest.scopes = ScopesOf("graphAPI")
    /\ session.tokenRequest.code = Str(<<"c">>)

\* C25: getToken replaces the whole remoteResources map by the one entry of the
\* requested resource with accessToken null: after the request the map has that
\* entry and no other, holding the token of this request's silent acquisition or
\* null, and the tokens the session had for other resources are gone; nonce,
\* isAuthenticated and account are as they were
C25_GetTokenReplacesResources ==
    last.op = "getToken" =>
        LET r == last.input.resource
        IN  /\ ResetResources(last.pre, r).map = [n \in {r} |-> Null]
            /\ session.remoteResources.def
            /\ DOMAIN session.remoteResources.map = {r}
            /\ session.remoteResources.map[r] =
                  IF last.res.kind = "next" THEN last.input.silent.accessToken ELSE Null
            /\ \A n \in {ResourceNames[i] : i \in 1..Len(ResourceNames)} \ {r} :
                  TokenOf(session, n) = Null
            /\ session.nonce = last.pre.nonce
            /\ session.isAuthenticated = last.pre.isAuthenticated
            /\ session.account = last.pre.account

\* C25 witness: a getToken for armAPI that falls back on a signed-in session that
\* held a token for graphAPI leaves the one entry of armAPI, without a token
C25_Witness ==
    /\ last.op = "getToken"
    /\ last.input.resource = "armAPI"
    /\ last.pre.isAuthenticated = "true"
    /\ last.pre.remoteResources.def
    /\ TokenOf(last.pre, "graphAPI") # Null
    /\ last.authCode.called
    /\ DOMAIN session.remoteResources.map = {"armAPI"}
    /\ session.remoteResources.map["armAPI"] = Null

\* the rules with a groups key
GroupRules == {r \in AccessRules : r.groups.def}

\* C26: overage resolution writes the claims of the account only when the
\* directory lookup completes: then, whether the rule allows or denies, the claims
\* are the former ones without _claim_names and _claim_sources and with the groups
\* taken from the directory, and a later hasAccess on the session evaluates these
\* groups without a directory call; when the silent acquisition, the fetch or the
\* pagination fails the session is as it was, the marker is still there and the
\* next hasAccess runs overage resolution again
C26_OverageWritesOnSuccess ==
    (IsHasAccess /\ last.lookup.silent) =>
        LET claims == last.pre.account.idTokenClaims
            written == [claims EXCEPT !._claim_names = FALSE, !._claim_sources = FALSE,
                                      !.groups = Claim(OverageGroups(last.env.dir))]
        IN  IF LookupFailed
            THEN /\ session = last.pre
                 /\ ~session.account.idTokenClaims.groups.def
                 /\ \/ session.account.idTokenClaims._claim_names
                    \/ session.account.idTokenClaims._claim_sources
                 /\ \A m \in Methods, r \in GroupRules, env \in OverageEnvs :
                       hasAccess(session, m, r, env).lookup.silent
            ELSE /\ session = [last.pre EXCEPT !.account.idTokenClaims = written]
                 /\ last.res.kind \in {"next", "redirect"}
                 /\ \A m \in Methods, r \in GroupRules :
                       LET later == hasAccess(session, m, r, NoOverageEnv)
                       IN  /\ later.lookup = [NoLookup EXCEPT !.evaluated = written.groups]
                           /\ later.session = session
                           /\ later.res = Decision(m, r, written.groups.val, "groups")

\* C26 witness: overage resolution completes and the rule denies; the claims are
\* written all the same
C26_Witness ==
    /\ IsHasAccess
    /\ last.lookup.silent
    /\ last.lookup.evaluated = Claim({"g2"})
    /\ last.pre.account.idTokenClaims._claim_names
    /\ last.res = Redirect(UnauthorizedRoute, "USER_NOT_IN_GROUP")
    /\ session.account.idTokenClaims.groups = Claim({"g2"})
    /\ ~session.account.idTokenClaims._claim_names
    /\ ~session.account.idTokenClaims._claim_sources

=============================================================================
